---------------------------- MODULE Spec2Model ----------------------------
(***************************************************************************)
(* Model of the INN verification proxy of Mapchap: the Express handler     *)
(* POST /api/fns/verify-inn with its LRU/TTL cache in front of the DaData  *)
(* registry.  Every request is a callback chain with two suspension        *)
(* points (await fetch, then await response.text() / response.json());     *)
(* between them other requests and the clock may run.                      *)
(*                                                                         *)
(* Strings that the code inspects character by character (the inn and the  *)
(* provider's status token) are sequences of one-character strings.        *)
(* Message texts are Russian in the source; they appear here as ASCII      *)
(* tags.                                                                   *)
(***************************************************************************)
EXTENDS Integers, Sequences, FiniteSets, TLC

(***************************************************************************)
(* Bounds of the model.                                                    *)
(***************************************************************************)
MaxReq == 2        \* verify requests in one behaviour
MaxTime == 2       \* last value of the clock
MaxLruReq == 4     \* verify requests in one behaviour of the cache under capacity pressure
MaxPending == 2    \* verifications the page is awaiting at one time
MaxHistory == 3    \* screens kept in navigationHistory
MaxTtlReq == 3     \* verify requests for one inn while its entry ages
MaxEstablishments == 4  \* establishments in establishmentsData

(***************************************************************************)
(* Program constants (scaled: the source counts entries and milliseconds). *)
(***************************************************************************)
RetryLimit == 10   \* tryInit: attempt <= 10
max == 2           \* LRUCache max: 100 entries in the source
ttl == 1           \* LRUCache ttl: 1000 * 60 * 60 ms in the source, in clock ticks here

VARIABLES
    now,           \* the clock read by the cache (performance.now())
    cache,         \* LRUCache: entries from least to most recently used
    reqs,          \* the verify requests: position in the handler, inputs, response
    client,        \* the page: INN field, verification marks, UserSystem's profile
    nav,           \* Navigation: current screen, history, unsaved-changes flag, modals
    map            \* MapSystem: loading of the map API, establishmentsData

vars == <<now, cache, reqs, client, nav, map>>

Requests == 1..MaxReq

(***************************************************************************)
(* JSON values of req.body.inn.                                            *)
(***************************************************************************)
Rep(n, c) == [i \in 1..n |-> c]

Undefined == [t |-> "undefined", s |-> <<>>]
Str(s) == [t |-> "string", s |-> s]
Num(s) == [t |-> "number", s |-> s]

InnA == Str(Rep(10, "7"))
InnB == Str(Rep(12, "7"))

Inns ==
    { Undefined, Str(<<>>),
      InnA, InnB,
      Str(Rep(11, "7")),
      Str(<<" ">> \o Rep(10, "7")),
      Num(Rep(10, "7")) }

DigitChars == {"0", "1", "2", "3", "4", "5", "6", "7", "8", "9"}

\* !inn : undefined, the empty string and the number 0 are falsy
Falsy(inn) ==
    \/ inn.t = "undefined"
    \/ inn.t = "string" /\ inn.s = <<>>
    \/ inn.t = "number" /\ inn.s = <<"0">>

\* the pattern written as ^\d{10,12}$
RegexTestRange(inn) ==
    /\ Len(inn.s) \in 10..12
    /\ \A i \in 1..Len(inn.s) : inn.s[i] \in DigitChars

\* /^\d{10}$|^\d{12}$/.test(inn) : test() converts its argument to a string
RegexTest(inn) ==
    /\ Len(inn.s) \in {10, 12}
    /\ \A i \in 1..Len(inn.s) : inn.s[i] \in DigitChars

Valid(inn) == ~Falsy(inn) /\ RegexTest(inn)


(***************************************************************************)
(* The provider's answer.  companyData is data.suggestions[0].data.        *)
(***************************************************************************)
Missing == [missing |-> TRUE]      \* a property that is undefined
IsMissing(x) == "missing" \in DOMAIN x

UpperChars == <<"A", "C", "D", "E", "G", "I", "L", "N", "Q", "T", "U", "V">>
LowerChars == <<"a", "c", "d", "e", "g", "i", "l", "n", "q", "t", "u", "v">>

LowerChar(c) ==
    IF \E i \in 1..Len(UpperChars) : UpperChars[i] = c
    THEN LowerChars[CHOOSE i \in 1..Len(UpperChars) : UpperChars[i] = c]
    ELSE c

\* a conversion that leaves the string as it is
toLowerCaseNone(s) == s

\* String.prototype.toLowerCase
toLowerCase(s) == [i \in 1..Len(s) |-> LowerChar(s[i])]

ACTIVE == <<"A", "C", "T", "I", "V", "E">>
Active == <<"A", "c", "t", "i", "v", "e">>
active == <<"a", "c", "t", "i", "v", "e">>
LIQUIDATING == <<"L", "I", "Q", "U", "I", "D", "A", "T", "I", "N", "G">>
liquidating == <<"l", "i", "q", "u", "i", "d", "a", "t", "i", "n", "g">>

CandActive ==
    [ name    |-> [full_with_opf |-> "OOO Romashka", short_with_opf |-> "OOO Rom",
                   full |-> "Romashka", short |-> "Rom"],
      ogrn    |-> "1027700000001", ogrnip |-> "",
      address |-> [value |-> "Moscow"],
      okved   |-> "62.01", okveds |-> <<>>,
      state   |-> [status |-> ACTIVE] ]

CandMixedCase ==
    [ CandActive EXCEPT !.state = [status |-> Active] ]

CandLiquidating ==
    [ name    |-> [full_with_opf |-> "", short_with_opf |-> "", full |-> "", short |-> "IP Vega"],
      ogrn    |-> "", ogrnip |-> "304770000000001",
      address |-> [value |-> "Kazan"],
      okved   |-> "", okveds |-> <<"47.11">>,
      state   |-> [status |-> LIQUIDATING] ]

CandNoName == [ CandActive EXCEPT !.name = Missing ]

CandNoStatus == [ CandActive EXCEPT !.state = [actuality_date |-> "0"] ]

Candidates == { CandActive, CandMixedCase, CandLiquidating, CandNoName, CandNoStatus }

\* parsed bodies of a 2xx answer: null, {}, {suggestions: [...]}
JsonNull == [null |-> TRUE]
NoSuggestions == [other |-> "x"]
Datas ==
    { JsonNull, NoSuggestions, [suggestions |-> <<>>] }
    \cup { [suggestions |-> <<c>>] : c \in Candidates }
    \cup { [suggestions |-> <<CandActive, CandLiquidating>>],
           [suggestions |-> <<CandLiquidating, CandActive>>] }

\* a || b for strings: the empty (or missing) string is falsy
Or(a, b) == IF a # "" THEN a ELSE b

(***************************************************************************)
(* Lines 73-102: what the handler makes of a parsed body.  A TypeError     *)
(* (property of null/undefined) leaves the try block.                      *)
(***************************************************************************)
MsgFound == "found"                    \* line 77
MsgNotActive == "found_not_active"     \* line 90
MsgNotFound == "not_found"             \* line 98

\* line 79 with the name fields tried from the last to the first
CompanyShortNameFirst(companyData) ==
    [ name    |-> Or(companyData.name.short,
                  Or(companyData.name.full,
                  Or(companyData.name.short_with_opf, companyData.name.full_with_opf))),
      ogrn    |-> Or(companyData.ogrn, companyData.ogrnip),
      address |-> companyData.address.value,
      okved   |-> Or(companyData.okved,
                     IF Len(companyData.okveds) > 0 THEN companyData.okveds[1] ELSE ""),
      state   |-> toLowerCase(companyData.state.status) ]

\* lines 75-85
Company(companyData) ==
    [ name    |-> Or(companyData.name.full_with_opf,
                  Or(companyData.name.short_with_opf,
                  Or(companyData.name.full, companyData.name.short))),
      ogrn    |-> Or(companyData.ogrn, companyData.ogrnip),
      address |-> companyData.address.value,
      okved   |-> Or(companyData.okved,
                     IF Len(companyData.okveds) > 0 THEN companyData.okveds[1] ELSE ""),
      state   |-> toLowerCase(companyData.state.status) ]

\* lines 79-83 throw when name, address, state or state.status is undefined
CompanyThrows(companyData) ==
    \/ IsMissing(companyData.name)
    \/ IsMissing(companyData.address)
    \/ IsMissing(companyData.state)
    \/ "status" \notin DOMAIN companyData.state

\* lines 88-91 left out
FoundResultNoDowngrade(companyData) ==
    [status |-> "success", message |-> MsgFound, company |-> Company(companyData)]

\* line 90 left out
FoundResultKeepsMessage(companyData) ==
    LET company == Company(companyData) IN
    IF company.state # active
    THEN [status |-> "warning", message |-> MsgFound, company |-> company]
    ELSE [status |-> "success", message |-> MsgFound, company |-> company]

\* lines 75-91
FoundResult(companyData) ==
    LET company == Company(companyData) IN
    IF company.state # active
    THEN [status |-> "warning", message |-> MsgNotActive, company |-> company]
    ELSE [status |-> "success", message |-> MsgFound, company |-> company]

\* lines 96-99
NotFoundResult == [status |-> "error", message |-> MsgNotFound]

\* line 73: data.suggestions && data.suggestions.length > 0
HasSuggestions(data) ==
    /\ "suggestions" \in DOMAIN data
    /\ Len(data.suggestions) > 0

\* lines 71-102 after response.json() resolved with data
DataThrows(data) ==
    \/ "null" \in DOMAIN data
    \/ HasSuggestions(data) /\ CompanyThrows(data.suggestions[1])

Normalize(data) ==
    IF HasSuggestions(data) THEN FoundResult(data.suggestions[1]) ELSE NotFoundResult

(***************************************************************************)
(* LRUCache({max, ttl}) of lines 18-21, as the handler uses it.  The cache *)
(* is the sequence of its entries from least to most recently used.  An    *)
(* entry is stale when more than ttl has passed since it was set; has()    *)
(* neither removes a stale entry nor changes the recency order, get()      *)
(* moves a fresh entry to the most recent end and removes a stale one,     *)
(* set() stamps the entry with the current time and, for a new key in a    *)
(* full cache, first drops the least recently used entry.  Within one      *)
(* synchronous block all cache calls read the same clock value.  The field *)
(* by records which request wrote the entry, the field used the number of  *)
(* the cache access (a get that returned the entry, or a set) that touched *)
(* it last.                                                                *)
(***************************************************************************)
\* the cache accesses made so far: every request makes at most one
Accesses == Cardinality({r \in DOMAIN reqs : reqs[r].hit \/ reqs[r].wrote})

\* a cache constructed without ttl
isStaleNever(e, t) == FALSE

\* an entry counted stale already when exactly ttl has passed
isStaleAtTtl(e, t) == t - e.start >= ttl

isStale(e, t) == t - e.start > ttl

Index(c, k) ==
    IF \E i \in 1..Len(c) : c[i].key = k
    THEN CHOOSE i \in 1..Len(c) : c[i].key = k
    ELSE 0

Without(c, i) == [j \in 1..(Len(c) - 1) |-> IF j < i THEN c[j] ELSE c[j + 1]]

\* has() asked for a key that is never stored
hasWrongKey(c, k, t) == FALSE

\* cache.has(k)
has(c, k, t) == Index(c, k) # 0 /\ ~isStale(c[Index(c, k)], t)

\* get() with its own freshness test, stale already at exactly ttl
getStaleAtTtl(c, k, t) ==
    IF Index(c, k) = 0 \/ t - c[Index(c, k)].start >= ttl THEN Missing ELSE c[Index(c, k)].value

\* cache.get(k): the value returned, and the cache afterwards
get(c, k, t) ==
    IF Index(c, k) = 0 \/ isStale(c[Index(c, k)], t) THEN Missing ELSE c[Index(c, k)].value

\* get() of a cache constructed with updateAgeOnGet
AfterGetRestamps(c, k, t) ==
    LET i == Index(c, k) IN
    IF i = 0 THEN c
    ELSE IF isStale(c[i], t) THEN Without(c, i)
    ELSE Append(Without(c, i), [c[i] EXCEPT !.used = Accesses + 1, !.start = t])

\* get() that returns the value and leaves the recency order alone (peek)
AfterGetKeepsOrder(c, k, t) ==
    LET i == Index(c, k) IN
    IF i = 0 THEN c
    ELSE IF isStale(c[i], t) THEN Without(c, i)
    ELSE [c EXCEPT ![i].used = Accesses + 1]

AfterGet(c, k, t) ==
    LET i == Index(c, k) IN
    IF i = 0 THEN c
    ELSE IF isStale(c[i], t) THEN Without(c, i)
    ELSE Append(Without(c, i), [c[i] EXCEPT !.used = Accesses + 1])

\* set() that stores the status and the message only
AfterSetStatusOnly(c, k, v, t, r) ==
    LET i == Index(c, k)
        e == [key |-> k, value |-> [status |-> v.status, message |-> v.message],
              start |-> t, by |-> r, used |-> Accesses + 1]
    IN  IF i # 0 THEN Append(Without(c, i), e)
        ELSE IF Len(c) >= max THEN Append(Tail(c), e)
        ELSE Append(c, e)

\* set() guarded by if (!cache.has(k)): the first write wins
AfterSetKeepsFirst(c, k, v, t, r) ==
    LET i == Index(c, k)
        e == [key |-> k, value |-> v, start |-> t, by |-> r, used |-> Accesses + 1]
    IN  IF i # 0 /\ ~isStale(c[i], t) THEN c
        ELSE IF i # 0 THEN Append(Without(c, i), e)
        ELSE IF Len(c) >= max THEN Append(Tail(c), e)
        ELSE Append(c, e)

\* set() that stamps every entry of the cache with the current time
AfterSetRestampsAll(c, k, v, t, r) ==
    LET i == Index(c, k)
        e == [key |-> k, value |-> v, start |-> t, by |-> r, used |-> Accesses + 1]
        d == IF i # 0 THEN Append(Without(c, i), e)
             ELSE IF Len(c) >= max THEN Append(Tail(c), e)
             ELSE Append(c, e)
    IN  [j \in 1..Len(d) |-> [d[j] EXCEPT !.start = t, !.by = r]]

\* set() that appends a new key without dropping an entry of a full cache
AfterSetNoEviction(c, k, v, t, r) ==
    LET i == Index(c, k)
        e == [key |-> k, value |-> v, start |-> t, by |-> r, used |-> Accesses + 1]
    IN  IF i # 0 THEN Append(Without(c, i), e) ELSE Append(c, e)

\* cache.set(k, v)
AfterSet(c, k, v, t, r) ==
    LET i == Index(c, k)
        e == [key |-> k, value |-> v, start |-> t, by |-> r, used |-> Accesses + 1]
    IN  IF i # 0 THEN Append(Without(c, i), e)
        ELSE IF Len(c) >= max THEN Append(Tail(c), e)
        ELSE Append(c, e)

(***************************************************************************)
(* Requests.  A request keeps the handler's position (pc), its inn, the    *)
(* status of the upstream response it is reading, and its HTTP response.   *)
(* hit, expired, calls, cacheOps and wrote record whether it took the      *)
(* cache branch, whether it found an expired entry under its inn, how many *)
(* times it called fetch, how many cache methods it called and whether it  *)
(* called cache.set; atTtl records that the entry it was answered from had *)
(* been set exactly ttl before.                                            *)
(***************************************************************************)
NoResponse == [code |-> 0]

Idle ==
    [ pc |-> "idle", inn |-> Undefined, hit |-> FALSE, atTtl |-> FALSE,
      expired |-> FALSE, calls |-> 0,
      cacheOps |-> 0, wrote |-> FALSE, status |-> 0, res |-> NoResponse ]

\* response.status of an upstream response with response.ok, and without
OkStatus == 200
ErrorStatuses == {403, 503}

MsgNoInn == "inn_missing"              \* line 39
MsgBadFormat == "inn_bad_format"       \* line 44
MsgFnsError == "fns_error"             \* line 68
MsgInternal == "internal_error"        \* line 105

\* res.status(code).json(body); the handler returns
Respond(q, code, body) ==
    [q EXCEPT !.pc = "done", !.status = 0, !.res = [code |-> code, body |-> body]]

\* lines 103-106
Catch(q) == Respond(q, 500, [message |-> MsgInternal, details |-> "error.message"])

(***************************************************************************)
(* The page (public/app.js).  A profile keeps the fields the verification  *)
(* and the favorites are concerned with: type, id, isVerified, fnsData,    *)
(* favoriteCategories and favoriteEstablishments.  A field the object does *)
(* not have reads "undefined".  An array is its elements, and whether it   *)
(* is the array object that mockBusinessProfile holds: { ...object }       *)
(* copies the reference, push changes the array in place.                  *)
(***************************************************************************)
NoArray == [t |-> "undefined", s |-> <<>>, shared |-> FALSE]

Array(s) == [t |-> "array", s |-> s, shared |-> FALSE]

SharedArray(s) == [t |-> "array", s |-> s, shared |-> TRUE]

\* currentUser = null
NullUser ==
    [type |-> "null", id |-> "undefined", isVerified |-> "undefined", fnsData |-> "undefined",
     favoriteCategories |-> NoArray, favoriteEstablishments |-> NoArray]

\* { type: 'regular', favoriteCategories: [], favoriteEstablishments: [] }
RegularUser ==
    [type |-> "regular", id |-> "undefined", isVerified |-> "undefined", fnsData |-> "undefined",
     favoriteCategories |-> Array(<<>>), favoriteEstablishments |-> Array(<<>>)]

\* lines 612-633, as the script defines it
mockBusinessProfile ==
    [type |-> "business", id |-> "biz1", isVerified |-> "false", fnsData |-> "null",
     favoriteCategories |-> SharedArray(<<>>), favoriteEstablishments |-> SharedArray(<<>>)]

\* the object built by the registration form: businessName, businessCategory,
\* businessDescription, contactPerson, email, businessLogo, businessLocation
businessData == [isVerified |-> "undefined", fnsData |-> "undefined"]

\* { type: 'business', ...businessData, id: 'biz' + n, establishments: [] }
registerBusiness(data) ==
    [type |-> "business", id |-> "biz", isVerified |-> data.isVerified, fnsData |-> data.fnsData,
     favoriteCategories |-> NoArray, favoriteEstablishments |-> NoArray]

\* { ...currentUser, ...profileData } : profileData has the fields of
\* businessData, so type, id, isVerified, fnsData and the favorites are those
\* of currentUser
updateBusinessProfile(user, profileData) ==
    [user EXCEPT
        !.isVerified = IF profileData.isVerified = "undefined" THEN @
                       ELSE profileData.isVerified,
        !.fnsData    = IF profileData.fnsData = "undefined" THEN @
                       ELSE profileData.fnsData]

\* JSON.stringify followed by JSON.parse: the arrays are new objects
Stored(user) ==
    [user EXCEPT !.favoriteCategories.shared = FALSE,
                 !.favoriteEstablishments.shared = FALSE]

\* lines 658-664: localStorage holds no user (<<>>) or one (<<user>>)
saveUserData(user) == <<Stored(user)>>

\* lines 643-651
loadUserData(saved) == IF saved = <<>> THEN NullUser ELSE saved[1]

\* lines 689-691: { ...mockBusinessProfile } with the arrays as they are now
loginProfile(mock) ==
    [mockBusinessProfile EXCEPT
        !.favoriteCategories.s = mock.favoriteCategories,
        !.favoriteEstablishments.s = mock.favoriteEstablishments]

\* the elements of the two arrays of mockBusinessProfile when the script starts
MockArrays == [favoriteCategories |-> <<>>, favoriteEstablishments |-> <<>>]

\* Array.prototype.includes
includes(s, x) == \E i \in 1..Len(s) : s[i] = x

\* Array.prototype.filter(id => id !== x)
filterOut(s, x) == SelectSeq(s, LAMBDA id : id # x)

\* dataset of #fns-company-data before any handler wrote it
NoDataset == [isVerified |-> "undefined", fnsData |-> "undefined"]

\* the page after UserSystem.init() found nothing in localStorage
ClientInit ==
    [inn         |-> <<>>,
     dataset     |-> NoDataset,
     currentUser |-> RegularUser,
     saved       |-> <<RegularUser>>,
     mock        |-> MockArrays,
     pending     |-> <<>>,
     verifiedInn |-> <<>>,
     lastStatus  |-> "none"]

(***************************************************************************)
(* Navigation (public/app.js): the current screen, the stack of screens    *)
(* left behind, the unsaved-changes flag, whether the location picker and  *)
(* the establishment details are open, and whether the Mini App was        *)
(* closed.  confirmed is the answer of the user to confirm().              *)
(***************************************************************************)
MainMapScreen == "main-map-screen"
ProfileScreen == "business-profile-screen"
FavoriteCategoriesScreen == "favorite-categories-screen"
EstablishmentScreen == "add-edit-establishment-screen"
EditProfileScreen == "edit-business-profile-screen"
RegistrationScreen == "business-registration-screen"

\* line 1365: the screens that are not pushed on the history
FormScreens == {EstablishmentScreen, EditProfileScreen, RegistrationScreen}

Screens == {MainMapScreen, ProfileScreen, FavoriteCategoriesScreen} \cup FormScreens

\* lines 1333-1335, and no modal open
NavInit ==
    [currentScreenId      |-> MainMapScreen,
     navigationHistory    |-> <<>>,
     isAddingOrEditing    |-> FALSE,
     locationPickerActive |-> FALSE,
     establishmentActive  |-> FALSE,
     closed               |-> FALSE]

\* goToScreen that pushes the screen it leaves whatever it is
goToScreenPushesForms(n, targetScreenId, confirmed) ==
    LET n1 == [n EXCEPT !.locationPickerActive = FALSE] IN
    IF n1.isAddingOrEditing /\ ~confirmed THEN n1
    ELSE LET n2 == [n1 EXCEPT !.isAddingOrEditing = FALSE, !.establishmentActive = FALSE] IN
         IF targetScreenId = n2.currentScreenId THEN n2
         ELSE [n2 EXCEPT
                  !.navigationHistory = Append(@, n2.currentScreenId),
                  !.currentScreenId = targetScreenId,
                  !.isAddingOrEditing = targetScreenId \in FormScreens]

\* lines 1345-1424; lines 1392 and 1395 (through lines 1467 and 1500) and
\* line 1406 set the flag on the three forms
goToScreen(n, targetScreenId, confirmed) ==
    LET n1 == [n EXCEPT !.locationPickerActive = FALSE] IN
    IF n1.isAddingOrEditing /\ ~confirmed THEN n1
    ELSE LET n2 == [n1 EXCEPT !.isAddingOrEditing = FALSE, !.establishmentActive = FALSE] IN
         IF targetScreenId = n2.currentScreenId THEN n2
         ELSE [n2 EXCEPT
                  !.navigationHistory =
                      IF n2.currentScreenId \notin FormScreens
                      THEN Append(@, n2.currentScreenId) ELSE @,
                  !.currentScreenId = targetScreenId,
                  !.isAddingOrEditing =
                      targetScreenId \in {EstablishmentScreen, EditProfileScreen,
                                          RegistrationScreen}]

\* goBack that goes to the bottom of the history
goBackToFirst(n, confirmed, confirmedAgain) ==
    IF n.locationPickerActive THEN [n EXCEPT !.locationPickerActive = FALSE]
    ELSE IF n.isAddingOrEditing /\ ~confirmed THEN n
    ELSE IF n.establishmentActive THEN [n EXCEPT !.establishmentActive = FALSE]
    ELSE IF Len(n.navigationHistory) > 0
         THEN goToScreen([n EXCEPT !.navigationHistory = Tail(@)],
                         Head(n.navigationHistory), confirmedAgain)
         ELSE [n EXCEPT !.closed = TRUE]

\* lines 1432-1457; goToScreen asks for the confirmation once more
goBack(n, confirmed, confirmedAgain) ==
    IF n.locationPickerActive THEN [n EXCEPT !.locationPickerActive = FALSE]
    ELSE IF n.isAddingOrEditing /\ ~confirmed THEN n
    ELSE IF n.establishmentActive THEN [n EXCEPT !.establishmentActive = FALSE]
    ELSE IF Len(n.navigationHistory) > 0
         THEN goToScreen([n EXCEPT !.navigationHistory = SubSeq(@, 1, Len(@) - 1)],
                         n.navigationHistory[Len(n.navigationHistory)], confirmedAgain)
         ELSE [n EXCEPT !.closed = TRUE]

\* lines 1399-1405: entering the registration screen clears the INN field
afterGoToScreen(c, n, n2) ==
    IF n2.currentScreenId = RegistrationScreen /\ n.currentScreenId # RegistrationScreen
    THEN [c EXCEPT !.inn = <<>>]
    ELSE c

(***************************************************************************)
(* MapSystem (src/public/app.js lines 216-600).  An establishment is its   *)
(* id, the n of 'est' + n, and its name; the map API (window.ymaps) is     *)
(* loaded or not; timer is the attempt number of the tryInit call that     *)
(* setTimeout holds, 0 when none is scheduled; attempts counts the calls   *)
(* of tryInit.                                                             *)
(***************************************************************************)
EstNames == {"cafe", "shop"}

mockEstablishments ==
    << [id |-> 1, name |-> "cafe"], [id |-> 2, name |-> "cafe"],
       [id |-> 3, name |-> "shop"], [id |-> 4, name |-> "shop"] >>

MapBlank ==
    [ymaps              |-> FALSE,
     timer              |-> 0,
     attempts           |-> 0,
     failed             |-> FALSE,
     readyPending       |-> FALSE,
     objectManager      |-> FALSE,
     establishmentsData |-> <<>>]

\* tryInit that gives up one attempt earlier
tryInitOneFewer(m, attempt) ==
    LET m1 == [m EXCEPT !.attempts = @ + 1, !.timer = 0] IN
    IF ~m1.ymaps
    THEN IF attempt < RetryLimit
         THEN [m1 EXCEPT !.timer = attempt + 1]
         ELSE [m1 EXCEPT !.failed = TRUE]
    ELSE [m1 EXCEPT !.readyPending = TRUE]

\* lines 337-350: one call of tryInit(attempt); line 352: with the API
\* loaded the rest of the initialisation is handed to ymaps.ready
tryInit(m, attempt) ==
    LET m1 == [m EXCEPT !.attempts = @ + 1, !.timer = 0] IN
    IF ~m1.ymaps
    THEN IF attempt <= RetryLimit
         THEN [m1 EXCEPT !.timer = attempt + 1]
         ELSE [m1 EXCEPT !.failed = TRUE]
    ELSE [m1 EXCEPT !.readyPending = TRUE]

\* line 2118: initMap calls tryInit() when the page is loaded; the script of
\* the map API has not been loaded at that time
MapInit == tryInit(MapBlank, 1)

\* lines 546-552
addEstablishment(data, newEst) ==
    Append(data, [newEst EXCEPT !.id = Len(data) + 1])

\* lines 561-569: findIndex takes the first establishment with the id
updateEstablishment(data, updatedEst) ==
    IF \E i \in 1..Len(data) : data[i].id = updatedEst.id
    THEN LET index == CHOOSE i \in 1..Len(data) :
                          /\ data[i].id = updatedEst.id
                          /\ \A j \in 1..(i - 1) : data[j].id # updatedEst.id
         IN [data EXCEPT ![index] = updatedEst]
    ELSE data

\* lines 579-588
deleteEstablishment(data, id) ==
    SelectSeq(data, LAMBDA est : est.id # id)

Init ==
    /\ now = 0
    /\ cache = <<>>
    /\ reqs = [r \in Requests |-> Idle]
    /\ client = ClientInit
    /\ nav = NavInit
    /\ map = MapInit

\* the handler with the clock advancing between cache.has and cache.get
ReceiveClockAdvances(r, inn) ==
    /\ reqs[r].pc = "idle"
    /\ \A p \in DOMAIN reqs : p < r => reqs[p].pc # "idle"
    /\ LET q == [reqs[r] EXCEPT !.inn = inn] IN
       IF Falsy(inn) THEN
           /\ reqs' = [reqs EXCEPT ![r] = Respond(q, 400, [message |-> MsgNoInn])]
           /\ UNCHANGED cache
       ELSE IF ~RegexTest(inn) THEN
           /\ reqs' = [reqs EXCEPT ![r] = Respond(q, 400, [message |-> MsgBadFormat])]
           /\ UNCHANGED cache
       ELSE IF has(cache, inn, now) THEN
           /\ reqs' = [reqs EXCEPT ![r] =
                  Respond([q EXCEPT !.hit = TRUE, !.cacheOps = 2,
                                    !.atTtl = now - cache[Index(cache, inn)].start = ttl],
                          200, get(cache, inn, now + 1))]
           /\ cache' = AfterGet(cache, inn, now + 1)
       ELSE
           /\ reqs' = [reqs EXCEPT ![r] =
                  [q EXCEPT !.pc = "fetch", !.cacheOps = 1, !.calls = 1,
                            !.expired = Index(cache, inn) # 0]]
           /\ UNCHANGED cache
    /\ UNCHANGED <<now, client, nav, map>>

(***************************************************************************)
(* Lines 35-63: the synchronous part of the handler, up to await fetch.    *)
(***************************************************************************)
Receive(r, inn) ==
    /\ reqs[r].pc = "idle"
    /\ \A p \in DOMAIN reqs : p < r => reqs[p].pc # "idle"
    /\ LET q == [reqs[r] EXCEPT !.inn = inn] IN
       IF Falsy(inn) THEN
           /\ reqs' = [reqs EXCEPT ![r] = Respond(q, 400, [message |-> MsgNoInn])]
           /\ UNCHANGED cache
       ELSE IF ~RegexTest(inn) THEN
           /\ reqs' = [reqs EXCEPT ![r] = Respond(q, 400, [message |-> MsgBadFormat])]
           /\ UNCHANGED cache
       ELSE IF has(cache, inn, now) THEN
           /\ reqs' = [reqs EXCEPT ![r] =
                  Respond([q EXCEPT !.hit = TRUE, !.cacheOps = 2,
                                    !.atTtl = now - cache[Index(cache, inn)].start = ttl],
                          200, get(cache, inn, now))]
           /\ cache' = AfterGet(cache, inn, now)
       ELSE
           /\ reqs' = [reqs EXCEPT ![r] =
                  [q EXCEPT !.pc = "fetch", !.cacheOps = 1, !.calls = 1,
                            !.expired = Index(cache, inn) # 0]]
           /\ UNCHANGED cache
    /\ UNCHANGED <<now, client, nav, map>>

\* a rejected fetch that is tried once more
FetchThrowsRetries(r) ==
    /\ reqs[r].pc = "fetch"
    /\ reqs' = [reqs EXCEPT ![r] = IF @.calls < 2 THEN [@ EXCEPT !.calls = @ + 1] ELSE Catch(@)]
    /\ UNCHANGED <<now, cache, client, nav, map>>

\* line 54: fetch rejects (network failure)
FetchThrows(r) ==
    /\ reqs[r].pc = "fetch"
    /\ reqs' = [reqs EXCEPT ![r] = Catch(@)]
    /\ UNCHANGED <<now, cache, client, nav, map>>

\* line 54: fetch resolves with a response; line 65 reads response.ok
FetchResolves(r, st) ==
    /\ reqs[r].pc = "fetch"
    /\ reqs' = [reqs EXCEPT ![r] =
           [@ EXCEPT !.pc = IF st = OkStatus THEN "json" ELSE "text", !.status = st]]
    /\ UNCHANGED <<now, cache, client, nav, map>>

\* line 68 without res.status(response.status)
TextResolvesNoStatus(r) ==
    /\ reqs[r].pc = "text"
    /\ reqs' = [reqs EXCEPT ![r] =
           Respond(@, 200, [message |-> MsgFnsError, details |-> "errorText"])]
    /\ UNCHANGED <<now, cache, client, nav, map>>

\* lines 66-68: response.text() resolves
TextResolves(r) ==
    /\ reqs[r].pc = "text"
    /\ reqs' = [reqs EXCEPT ![r] =
           Respond(@, @.status, [message |-> MsgFnsError, details |-> "errorText"])]
    /\ UNCHANGED <<now, cache, client, nav, map>>

\* line 66: response.text() rejects
TextThrows(r) ==
    /\ reqs[r].pc = "text"
    /\ reqs' = [reqs EXCEPT ![r] = Catch(@)]
    /\ UNCHANGED <<now, cache, client, nav, map>>

\* a catch block that caches a not-found result
JsonThrowsCaches(r) ==
    /\ reqs[r].pc = "json"
    /\ reqs' = [reqs EXCEPT ![r] = Catch(@)]
    /\ cache' = AfterSet(cache, reqs[r].inn, NotFoundResult, now, r)
    /\ UNCHANGED <<now, client, nav, map>>

\* line 71: response.json() rejects (the body is not JSON)
JsonThrows(r) ==
    /\ reqs[r].pc = "json"
    /\ reqs' = [reqs EXCEPT ![r] = Catch(@)]
    /\ UNCHANGED <<now, cache, client, nav, map>>

\* line 100 left out: the not-found result is not cached
JsonResolvesSkipsNegative(r, data) ==
    /\ reqs[r].pc = "json"
    /\ IF DataThrows(data) THEN
           /\ reqs' = [reqs EXCEPT ![r] = Catch(@)]
           /\ UNCHANGED cache
       ELSE
           /\ cache' = IF HasSuggestions(data)
                       THEN AfterSet(cache, reqs[r].inn, Normalize(data), now, r)
                       ELSE cache
           /\ reqs' = [reqs EXCEPT ![r] =
                  Respond([@ EXCEPT !.cacheOps = @ + 1, !.wrote = HasSuggestions(data)],
                          IF HasSuggestions(data) THEN 200 ELSE 404, Normalize(data))]
    /\ UNCHANGED <<now, client, nav, map>>

\* line 101 without res.status(404)
JsonResolvesNo404(r, data) ==
    /\ reqs[r].pc = "json"
    /\ IF DataThrows(data) THEN
           /\ reqs' = [reqs EXCEPT ![r] = Catch(@)]
           /\ UNCHANGED cache
       ELSE
           /\ cache' = AfterSet(cache, reqs[r].inn, Normalize(data), now, r)
           /\ reqs' = [reqs EXCEPT ![r] =
                  Respond([@ EXCEPT !.cacheOps = @ + 1, !.wrote = TRUE], 200, Normalize(data))]
    /\ UNCHANGED <<now, client, nav, map>>

\* lines 71-102: response.json() resolves with data
JsonResolves(r, data) ==
    /\ reqs[r].pc = "json"
    /\ IF DataThrows(data) THEN
           /\ reqs' = [reqs EXCEPT ![r] = Catch(@)]
           /\ UNCHANGED cache
       ELSE
           /\ cache' = AfterSet(cache, reqs[r].inn, Normalize(data), now, r)
           /\ reqs' = [reqs EXCEPT ![r] =
                  Respond([@ EXCEPT !.cacheOps = @ + 1, !.wrote = TRUE],
                          IF HasSuggestions(data) THEN 200 ELSE 404, Normalize(data))]
    /\ UNCHANGED <<now, client, nav, map>>

\* time passes
Tick ==
    /\ now < MaxTime
    /\ now' = now + 1
    /\ UNCHANGED <<cache, reqs, client, nav, map>>

Next ==
    \/ \E r \in Requests, inn \in Inns : Receive(r, inn)
    \/ \E r \in Requests : FetchThrows(r)
    \/ \E r \in Requests, st \in {OkStatus} \cup ErrorStatuses : FetchResolves(r, st)
    \/ \E r \in Requests : TextResolves(r)
    \/ \E r \in Requests : TextThrows(r)
    \/ \E r \in Requests : JsonThrows(r)
    \/ \E r \in Requests, data \in Datas : JsonResolves(r, data)
    \/ Tick

Spec == Init /\ [][Next]_vars

(***************************************************************************)
(* The cache under capacity pressure: more requests than the cache has     *)
(* room for, three distinct valid keys, every upstream call answered 2xx   *)
(* with one active candidate, and no entry expiring.                       *)
(***************************************************************************)
LruRequests == 1..MaxLruReq

InnC == Num(Rep(10, "7"))

LruInns == {InnA, InnB, InnC}

LruData == [suggestions |-> <<CandActive>>]

InitLRU ==
    /\ now = 0
    /\ cache = <<>>
    /\ reqs = [r \in LruRequests |-> Idle]
    /\ client = ClientInit
    /\ nav = NavInit
    /\ map = MapInit

NextLRU ==
    \/ \E r \in LruRequests, inn \in LruInns : Receive(r, inn)
    \/ \E r \in LruRequests : FetchResolves(r, OkStatus)
    \/ \E r \in LruRequests : JsonResolves(r, LruData)

SpecLRU == InitLRU /\ [][NextLRU]_vars

(***************************************************************************)
(* One entry growing old: several requests for the same inn, one after or  *)
(* beside the other, while the clock advances; every upstream call is      *)
(* answered 2xx with one active candidate.                                 *)
(***************************************************************************)
TtlRequests == 1..MaxTtlReq

InitTtl ==
    /\ now = 0
    /\ cache = <<>>
    /\ reqs = [r \in TtlRequests |-> Idle]
    /\ client = ClientInit
    /\ nav = NavInit
    /\ map = MapInit

NextTtl ==
    \/ \E r \in TtlRequests : Receive(r, InnA)
    \/ \E r \in TtlRequests : FetchResolves(r, OkStatus)
    \/ \E r \in TtlRequests : JsonResolves(r, LruData)
    \/ Tick

SpecTtl == InitTtl /\ [][NextTtl]_vars

(***************************************************************************)
(* The normalization of a found candidate: the upstream always answers 2xx *)
(* with one candidate, whose four name fields are each empty or filled or  *)
(* whose status token is one of several in upper or mixed case.            *)
(***************************************************************************)
NormNames ==
    [ full_with_opf  : {"", "OOO Romashka"},
      short_with_opf : {"", "OOO Rom"},
      full           : {"", "Romashka"},
      short          : {"", "Rom"} ]

NormStatuses == {ACTIVE, Active, LIQUIDATING}

NormCandidates ==
    { [CandActive EXCEPT !.name = n] : n \in NormNames }
    \cup { [CandActive EXCEPT !.state = [status |-> st]] : st \in NormStatuses }

NextNormalize ==
    \/ \E r \in Requests, inn \in {InnA, InnB} : Receive(r, inn)
    \/ \E r \in Requests : FetchResolves(r, OkStatus)
    \/ \E r \in Requests, c \in NormCandidates :
           JsonResolves(r, [suggestions |-> <<c>>])

SpecNormalize == Init /\ [][NextNormalize]_vars

(***************************************************************************)
(* The page: the INN field and its verify button, the registration and     *)
(* edit-profile forms, login and logout, and a reload of the page.  The    *)
(* answer of POST /api/fns/verify-inn is drawn from the answers the        *)
(* endpoint gives.                                                         *)
(***************************************************************************)
RECURSIVE trimStart(_)
trimStart(s) == IF s # <<>> /\ Head(s) = " " THEN trimStart(Tail(s)) ELSE s

RECURSIVE trimEnd(_)
trimEnd(s) ==
    IF s # <<>> /\ s[Len(s)] = " " THEN trimEnd(SubSeq(s, 1, Len(s) - 1)) ELSE s

trim(s) == trimEnd(trimStart(s))

\* what the user types into #inn
ClientInns ==
    { <<>>, Rep(10, "7"), Rep(12, "7"), Rep(11, "7"),
      <<" ">> \o Rep(10, "7") \o <<" ">> }

\* response.ok and result.status of the answer: 200 with a result (a cached
\* not-found is replayed with 200), 404 with the not-found result, and
\* 400, 500 or the upstream's status with a message only
Responses ==
    { [ok |-> TRUE,  status |-> "success"],
      [ok |-> TRUE,  status |-> "warning"],
      [ok |-> TRUE,  status |-> "error"],
      [ok |-> FALSE, status |-> "error"],
      [ok |-> FALSE, status |-> "undefined"] }

\* lines 1902-1908
InnInput(v) ==
    /\ client' = [client EXCEPT !.inn = v,
                                !.dataset = [isVerified |-> "false", fnsData |-> ""]]
    /\ UNCHANGED <<now, cache, reqs, nav, map>>

\* lines 1878-1891 and 976-986: the click handler up to await fetch
VerifyInnClick ==
    /\ Len(client.pending) < MaxPending
    /\ LET inn == trim(client.inn) IN
       IF Falsy(Str(inn)) \/ ~RegexTest(Str(inn))
       THEN UNCHANGED client
       ELSE client' = [client EXCEPT !.pending = Append(@, inn)]
    /\ UNCHANGED <<now, cache, reqs, nav, map>>

\* lines 987-1008 and 1892-1899: the answer arrived; verifyInn returns the
\* result when response.ok and null otherwise
VerifyInnResolves(i, resp) ==
    /\ i \in 1..Len(client.pending)
    /\ LET success == resp.ok /\ resp.status = "success" IN
       client' = [client EXCEPT
           !.pending = Without(@, i),
           !.lastStatus = resp.status,
           !.verifiedInn = IF success THEN client.pending[i] ELSE @,
           !.dataset = IF success THEN [isVerified |-> "true", fnsData |-> "company"]
                       ELSE [isVerified |-> "false", fnsData |-> ""]]
    /\ UNCHANGED <<now, cache, reqs, nav, map>>

\* lines 1009-1014 and 1892-1899: fetch or response.json() threw
VerifyInnThrows(i) ==
    /\ i \in 1..Len(client.pending)
    /\ client' = [client EXCEPT
           !.pending = Without(@, i),
           !.lastStatus = "failed",
           !.dataset = [isVerified |-> "false", fnsData |-> ""]]
    /\ UNCHANGED <<now, cache, reqs, nav, map>>

\* lines 1612-1648 and 716-745; valid: the form passed the client validation
RegistrationSubmit(valid, confirmed) ==
    /\ IF valid
       THEN /\ client' = [client EXCEPT !.currentUser = registerBusiness(businessData)]
            /\ nav' = [goToScreen(nav, ProfileScreen, confirmed)
                          EXCEPT !.isAddingOrEditing = FALSE]
       ELSE UNCHANGED <<client, nav>>
    /\ Len(nav'.navigationHistory) <= MaxHistory
    /\ UNCHANGED <<now, cache, reqs, map>>

\* lines 1794-1831 and 755-772; getProfile().businessLogo throws when
\* currentUser is null
EditProfileSubmit(valid, confirmed) ==
    /\ IF valid /\ client.currentUser.type # "null"
       THEN LET user == updateBusinessProfile(client.currentUser, businessData) IN
            /\ client' = [client EXCEPT !.currentUser = user,
                                        !.saved = saveUserData(user)]
            /\ nav' = [goToScreen(nav, ProfileScreen, confirmed)
                          EXCEPT !.isAddingOrEditing = FALSE]
       ELSE UNCHANGED <<client, nav>>
    /\ Len(nav'.navigationHistory) <= MaxHistory
    /\ UNCHANGED <<now, cache, reqs, map>>

\* lines 689-696
loginBusiness(confirmed) ==
    /\ client' = [client EXCEPT !.currentUser = loginProfile(client.mock)]
    /\ nav' = goToScreen(nav, ProfileScreen, confirmed)
    /\ Len(nav'.navigationHistory) <= MaxHistory
    /\ UNCHANGED <<now, cache, reqs, map>>

\* lines 702-706
logoutBusiness(confirmed) ==
    /\ client' = [client EXCEPT !.currentUser = NullUser]
    /\ nav' = goToScreen(nav, MainMapScreen, confirmed)
    /\ Len(nav'.navigationHistory) <= MaxHistory
    /\ UNCHANGED <<now, cache, reqs, map>>

\* the page is loaded again: lines 672-683 and 2115-2123
UserSystemInit ==
    /\ LET savedUser == loadUserData(client.saved) IN
       client' = [client EXCEPT
           !.inn = <<>>,
           !.dataset = NoDataset,
           !.pending = <<>>,
           !.mock = MockArrays,
           !.currentUser = IF savedUser.type # "null" THEN savedUser ELSE RegularUser,
           !.saved = IF savedUser.type # "null" THEN @ ELSE saveUserData(RegularUser)]
    /\ nav' = NavInit
    /\ map' = MapInit
    /\ UNCHANGED <<now, cache, reqs>>

NextClient ==
    \/ \E v \in ClientInns : InnInput(v)
    \/ VerifyInnClick
    \/ \E i \in 1..MaxPending, resp \in Responses : VerifyInnResolves(i, resp)
    \/ \E i \in 1..MaxPending : VerifyInnThrows(i)
    \/ \E valid, confirmed \in BOOLEAN : RegistrationSubmit(valid, confirmed)
    \/ \E valid, confirmed \in BOOLEAN : EditProfileSubmit(valid, confirmed)
    \/ \E confirmed \in BOOLEAN : loginBusiness(confirmed)
    \/ \E confirmed \in BOOLEAN : logoutBusiness(confirmed)
    \/ UserSystemInit

SpecClient == Init /\ [][NextClient]_vars

(***************************************************************************)
(* UserSystem: the profile, its favorites and its copy in localStorage.    *)
(* A call that reads a property of undefined throws a TypeError and        *)
(* changes nothing.                                                        *)
(***************************************************************************)
FavCategories == {"cafe", "shop"}

FavEstablishments == {1}

\* lines 880-886
AddFavoriteCategory(categoryId) ==
    /\ LET user == client.currentUser
           fav == user.favoriteCategories IN
       IF user.type # "null" /\ fav.t = "array" /\ ~includes(fav.s, categoryId)
       THEN LET added == [user EXCEPT !.favoriteCategories.s = Append(@, categoryId)] IN
            client' = [client EXCEPT
                !.currentUser = added,
                !.mock.favoriteCategories = IF fav.shared THEN Append(@, categoryId) ELSE @,
                !.saved = saveUserData(added)]
       ELSE UNCHANGED client
    /\ UNCHANGED <<now, cache, reqs, nav, map>>

\* lines 893-899
RemoveFavoriteCategory(categoryId) ==
    /\ LET user == client.currentUser
           fav == user.favoriteCategories IN
       IF user.type # "null" /\ fav.t = "array"
       THEN LET removed == [user EXCEPT
                               !.favoriteCategories = Array(filterOut(fav.s, categoryId))] IN
            client' = [client EXCEPT !.currentUser = removed,
                                     !.saved = saveUserData(removed)]
       ELSE UNCHANGED client
    /\ UNCHANGED <<now, cache, reqs, nav, map>>

\* lines 916-923
AddFavoriteEstablishment(establishmentId) ==
    /\ LET user == client.currentUser
           fav == user.favoriteEstablishments IN
       IF user.type # "null" /\ fav.t = "array" /\ ~includes(fav.s, establishmentId)
       THEN LET added == [user EXCEPT
                             !.favoriteEstablishments.s = Append(@, establishmentId)] IN
            client' = [client EXCEPT
                !.currentUser = added,
                !.mock.favoriteEstablishments =
                    IF fav.shared THEN Append(@, establishmentId) ELSE @,
                !.saved = saveUserData(added)]
       ELSE UNCHANGED client
    /\ UNCHANGED <<now, cache, reqs, nav, map>>

\* lines 930-937
RemoveFavoriteEstablishment(establishmentId) ==
    /\ LET user == client.currentUser
           fav == user.favoriteEstablishments IN
       IF user.type # "null" /\ fav.t = "array"
       THEN LET removed == [user EXCEPT
                               !.favoriteEstablishments =
                                   Array(filterOut(fav.s, establishmentId))] IN
            client' = [client EXCEPT !.currentUser = removed,
                                     !.saved = saveUserData(removed)]
       ELSE UNCHANGED client
    /\ UNCHANGED <<now, cache, reqs, nav, map>>

NextUser ==
    \/ \E valid, confirmed \in BOOLEAN : RegistrationSubmit(valid, confirmed)
    \/ \E valid, confirmed \in BOOLEAN : EditProfileSubmit(valid, confirmed)
    \/ \E confirmed \in BOOLEAN : loginBusiness(confirmed)
    \/ \E confirmed \in BOOLEAN : logoutBusiness(confirmed)
    \/ UserSystemInit
    \/ \E categoryId \in FavCategories : AddFavoriteCategory(categoryId)
    \/ \E categoryId \in FavCategories : RemoveFavoriteCategory(categoryId)
    \/ \E establishmentId \in FavEstablishments : AddFavoriteEstablishment(establishmentId)
    \/ \E establishmentId \in FavEstablishments : RemoveFavoriteEstablishment(establishmentId)

SpecUser == Init /\ [][NextUser]_vars

(***************************************************************************)
(* Navigation: the buttons of the bottom panel (their targets are written  *)
(* in the page's markup, so any screen), the buttons of the profile screen *)
(* and of the forms, the Back button, the two modals, and a reload.        *)
(***************************************************************************)
\* lines 1541-1548
NavButtonClick(targetScreenId, confirmed) ==
    /\ ~nav.closed
    /\ nav' = goToScreen(nav, targetScreenId, confirmed)
    /\ Len(nav'.navigationHistory) <= MaxHistory
    /\ client' = afterGoToScreen(client, nav, nav')
    /\ UNCHANGED <<now, cache, reqs, map>>

\* lines 1583-1590: "edit profile" and "add establishment" on the profile screen
ProfileButtonClick(targetScreenId, confirmed) ==
    /\ ~nav.closed
    /\ nav.currentScreenId = ProfileScreen
    /\ targetScreenId \in {EditProfileScreen, EstablishmentScreen}
    /\ nav' = goToScreen(nav, targetScreenId, confirmed)
    /\ Len(nav'.navigationHistory) <= MaxHistory
    /\ UNCHANGED <<now, cache, reqs, client, map>>

\* lines 1755-1757 and 1834-1836: "cancel" on the establishment and edit forms
CancelButtonClick(confirmed) ==
    /\ ~nav.closed
    /\ nav.currentScreenId \in {EstablishmentScreen, EditProfileScreen}
    /\ nav' = goToScreen(nav, ProfileScreen, confirmed)
    /\ UNCHANGED <<now, cache, reqs, client, map>>

\* lines 1675-1752; valid: the form passed the client validation
EstablishmentSubmit(valid, success, confirmed) ==
    /\ ~nav.closed
    /\ nav.currentScreenId = EstablishmentScreen
    /\ nav' = IF ~valid THEN nav
              ELSE [(IF success THEN goToScreen(nav, ProfileScreen, confirmed) ELSE nav)
                       EXCEPT !.isAddingOrEditing = FALSE]
    /\ UNCHANGED <<now, cache, reqs, client, map>>

\* line 1551
BackButtonClick(confirmed, confirmedAgain) ==
    /\ ~nav.closed
    /\ nav' = goBack(nav, confirmed, confirmedAgain)
    /\ Len(nav'.navigationHistory) <= MaxHistory
    /\ UNCHANGED <<now, cache, reqs, client, map>>

\* lines 1652-1658 and 1840-1846: "select on the map" on the registration
\* and edit forms; lines 1290-1312: the picker is closed
LocationPickerToggle ==
    /\ ~nav.closed
    /\ nav.locationPickerActive \/ nav.currentScreenId \in {RegistrationScreen, EditProfileScreen}
    /\ nav' = [nav EXCEPT !.locationPickerActive = ~@]
    /\ UNCHANGED <<now, cache, reqs, client, map>>

\* lines 389 and 858: an establishment is opened from the map or the profile;
\* lines 1124-1135 and 1190: the details are closed
EstablishmentDetailsToggle ==
    /\ ~nav.closed
    /\ nav.establishmentActive \/ nav.currentScreenId \in {MainMapScreen, ProfileScreen}
    /\ nav' = [nav EXCEPT !.establishmentActive = ~@]
    /\ UNCHANGED <<now, cache, reqs, client, map>>

NextNavigation ==
    \/ \E t \in Screens, confirmed \in BOOLEAN : NavButtonClick(t, confirmed)
    \/ \E t \in Screens, confirmed \in BOOLEAN : ProfileButtonClick(t, confirmed)
    \/ \E confirmed \in BOOLEAN : CancelButtonClick(confirmed)
    \/ \E valid, success, confirmed \in BOOLEAN : EstablishmentSubmit(valid, success, confirmed)
    \/ \E confirmed, confirmedAgain \in BOOLEAN : BackButtonClick(confirmed, confirmedAgain)
    \/ LocationPickerToggle
    \/ EstablishmentDetailsToggle
    \/ UserSystemInit

SpecNavigation == Init /\ [][NextNavigation]_vars

(***************************************************************************)
(* The map: loading of the map API and the list of establishments.         *)
(***************************************************************************)

\* the script of the map API defines window.ymaps
YmapsLoaded ==
    /\ ~map.ymaps
    /\ map' = [map EXCEPT !.ymaps = TRUE]
    /\ UNCHANGED <<now, cache, reqs, client, nav>>

\* line 341: the timeout set by tryInit fires
TimerFires ==
    /\ map.timer # 0
    /\ map' = tryInit(map, map.timer)
    /\ UNCHANGED <<now, cache, reqs, client, nav>>

\* lines 352-377 and 427-433: the callback of ymaps.ready creates the map and
\* the objectManager and loads the establishments
YmapsReady ==
    /\ map.readyPending
    /\ map' = [map EXCEPT !.readyPending = FALSE,
                          !.objectManager = TRUE,
                          !.establishmentsData = mockEstablishments]
    /\ UNCHANGED <<now, cache, reqs, client, nav>>

\* MapSystem.addEstablishment, lines 546-552, called at line 1734
AddEstablishment(name) ==
    /\ Len(map.establishmentsData) < MaxEstablishments
    /\ map' = [map EXCEPT !.establishmentsData =
                              addEstablishment(@, [id |-> 0, name |-> name])]
    /\ UNCHANGED <<now, cache, reqs, client, nav>>

\* MapSystem.updateEstablishment, lines 561-569, called at line 1731
UpdateEstablishment(id, name) ==
    /\ map' = [map EXCEPT !.establishmentsData =
                              updateEstablishment(@, [id |-> id, name |-> name])]
    /\ UNCHANGED <<now, cache, reqs, client, nav>>

\* MapSystem.deleteEstablishment, lines 579-588, called at line 1153
DeleteEstablishment(id) ==
    /\ map' = [map EXCEPT !.establishmentsData = deleteEstablishment(@, id)]
    /\ UNCHANGED <<now, cache, reqs, client, nav>>

EstIds == 1..MaxEstablishments

NextMap ==
    \/ YmapsLoaded
    \/ TimerFires
    \/ YmapsReady
    \/ \E name \in EstNames : AddEstablishment(name)
    \/ \E id \in EstIds, name \in EstNames : UpdateEstablishment(id, name)
    \/ \E id \in EstIds : DeleteEstablishment(id)

SpecMap == Init /\ [][NextMap]_vars

(***************************************************************************)
(* Properties of the verification endpoint.                                *)
(***************************************************************************)

\* a response body that is a verification result
IsResult(body) == "status" \in DOMAIN body

HasCompany(body) == "company" \in DOMAIN body

\* an entry is stored under inn and no more than ttl has passed since it was set
FreshEntry(inn) ==
    /\ Index(cache, inn) # 0
    /\ now - cache[Index(cache, inn)].start <= ttl

\* an entry is stored under inn and more than ttl has passed since it was set
ExpiredEntry(inn) ==
    /\ Index(cache, inn) # 0
    /\ now - cache[Index(cache, inn)].start > ttl

\* C1: a request with a valid inn that finds a fresh cache entry is answered
\* at once with the stored result and makes no upstream call.
C1_HitAnswersFromCache ==
    [][\A r \in Requests, inn \in Inns :
          (Receive(r, inn) /\ Valid(inn) /\ FreshEntry(inn))
          => /\ reqs'[r].pc = "done"
             /\ reqs'[r].res = [code |-> 200, body |-> cache[Index(cache, inn)].value]
             /\ reqs'[r].calls = 0]_vars

C1_Witness ==
    \E r \in Requests :
        /\ reqs[r].pc = "done" /\ reqs[r].hit /\ reqs[r].calls = 0
        /\ reqs[r].res.code = 200 /\ IsResult(reqs[r].res.body)

\* C2 as stated: any two requests for one valid inn made within the TTL
\* window cause exactly one upstream call in total.  While now <= ttl every
\* request so far was made within one window.
C2_Original ==
    now <= ttl =>
        \A r1, r2 \in Requests :
            (/\ r1 # r2
             /\ reqs[r1].pc = "done" /\ reqs[r2].pc = "done"
             /\ Valid(reqs[r1].inn) /\ reqs[r1].inn = reqs[r2].inn)
            => reqs[r1].calls + reqs[r2].calls = 1

\* C2, amended: a request for a valid inn that arrives while the cache still
\* holds the result another request stored for that inn, no more than ttl
\* after it was stored, is answered from the cache; the two requests made
\* exactly one upstream call in total.
C2_OneCallWithinTtl ==
    [][\A r2 \in Requests, inn \in Inns :
          (Receive(r2, inn) /\ Valid(inn) /\ FreshEntry(inn))
          => LET r1 == cache[Index(cache, inn)].by IN
             /\ r1 # r2 /\ reqs[r1].inn = inn /\ reqs[r1].wrote
             /\ reqs'[r2].hit
             /\ reqs[r1].calls + reqs'[r2].calls = 1]_vars

C2_Witness ==
    \E r1, r2 \in Requests :
        /\ r1 # r2 /\ reqs[r1].inn = reqs[r2].inn
        /\ reqs[r1].wrote /\ reqs[r1].calls = 1
        /\ reqs[r2].hit /\ reqs[r2].calls = 0

\* C3: a request for an inn whose cache entry was set more than ttl ago is
\* not answered from the entry: it calls upstream.
C3_ExpiredEntryRefetched ==
    [][\A r \in Requests, inn \in Inns :
          (Receive(r, inn) /\ Valid(inn) /\ ExpiredEntry(inn))
          => /\ reqs'[r].pc = "fetch"
             /\ reqs'[r].calls = 1
             /\ ~reqs'[r].hit
             /\ reqs'[r].res = NoResponse]_vars

C3_Witness ==
    \E r \in Requests :
        /\ reqs[r].pc = "fetch" /\ reqs[r].expired /\ reqs[r].calls = 1

\* C4: in every result sent or cached, status is "success" exactly when a
\* company is present and its state is "active".
SuccessIffActive(v) ==
    (v.status = "success") <=> (HasCompany(v) /\ v.company.state = active)

C4_SuccessIffActive ==
    /\ \A i \in 1..Len(cache) : SuccessIffActive(cache[i].value)
    /\ \A r \in Requests :
           (reqs[r].pc = "done" /\ IsResult(reqs[r].res.body))
           => SuccessIffActive(reqs[r].res.body)

C4_Witness ==
    /\ \E i \in 1..Len(cache) :
           cache[i].value.status = "success" /\ cache[i].value.company.state = active
    /\ \E r \in Requests :
           /\ reqs[r].pc = "done" /\ IsResult(reqs[r].res.body)
           /\ reqs[r].res.body.status = "warning"
           /\ reqs[r].res.body.company.state = liquidating

C6_NoCandidatesIs404 ==
    [][\A r \in Requests, data \in Datas :
          (/\ JsonResolves(r, data)
           /\ "suggestions" \in DOMAIN data
           /\ data.suggestions = <<>>)
          => /\ reqs'[r].pc = "done"
             /\ reqs'[r].res.code = 404
             /\ reqs'[r].res.body.status = "error"
             /\ reqs'[r].res.body.message = MsgNotFound
             /\ ~HasCompany(reqs'[r].res.body)]_vars

C6_Witness ==
    \E r \in Requests :
        /\ reqs[r].pc = "done" /\ reqs[r].wrote
        /\ reqs[r].res.code = 404
        /\ reqs[r].res.body = [status |-> "error", message |-> MsgNotFound]

\* C7: every response with status "error" is sent with HTTP 404, and every
\* HTTP 200 response carries status "success" or "warning" and a company.
C7_ErrorIs404 ==
    \A r \in Requests :
        reqs[r].pc = "done" =>
            /\ (IsResult(reqs[r].res.body) /\ reqs[r].res.body.status = "error")
               => reqs[r].res.code = 404
            /\ reqs[r].res.code = 200
               => /\ IsResult(reqs[r].res.body)
                  /\ reqs[r].res.body.status \in {"success", "warning"}
                  /\ HasCompany(reqs[r].res.body)

\* the pattern ^\d{10}$|^\d{12}$ on the characters of a string
MatchesPattern(s) ==
    /\ Len(s) = 10 \/ Len(s) = 12
    /\ \A i \in 1..Len(s) : s[i] \in DigitChars

\* C8: a request whose inn is missing or does not match the pattern is
\* answered 400 with a message; it calls no cache method, leaves the cache
\* as it was and makes no upstream call.
C8_InvalidInnRejected ==
    [][\A r \in Requests, inn \in Inns :
          (Receive(r, inn) /\ (inn.t = "undefined" \/ ~MatchesPattern(inn.s)))
          => /\ reqs'[r].pc = "done"
             /\ reqs'[r].res.code = 400
             /\ "message" \in DOMAIN reqs'[r].res.body
             /\ reqs'[r].cacheOps = 0
             /\ reqs'[r].calls = 0
             /\ cache' = cache]_vars

C8_Witness ==
    \E r \in Requests :
        /\ reqs[r].pc = "done" /\ reqs[r].inn = Str(Rep(11, "7"))
        /\ reqs[r].res = [code |-> 400, body |-> [message |-> MsgBadFormat]]
        /\ reqs[r].cacheOps = 0 /\ reqs[r].calls = 0

\* the step in which request r answers without a verification result
Fails(r) ==
    /\ reqs[r].pc \in {"fetch", "text", "json"}
    /\ reqs'[r].pc = "done"
    /\ ~IsResult(reqs'[r].res.body)

\* C9: a request whose upstream call fails leaves the cache as it was and
\* has written no entry of it.
C9_FailureWritesNothing ==
    [][\A r \in Requests :
          Fails(r) => /\ cache' = cache
                      /\ \A i \in 1..Len(cache') : cache'[i].by # r
                      /\ ~reqs'[r].wrote]_vars

\* after a failed request, the next request for the same inn calls upstream
C9_Witness ==
    \E r1, r2 \in Requests :
        /\ r1 < r2 /\ reqs[r1].inn = reqs[r2].inn
        /\ reqs[r1].pc = "done" /\ reqs[r1].res.code = 500 /\ reqs[r1].calls = 1
        /\ cache = <<>>
        /\ reqs[r2].pc = "fetch" /\ reqs[r2].calls = 1

\* request r called upstream and answered without a verification result
UpstreamFailed(r) ==
    /\ reqs[r].pc = "done"
    /\ reqs[r].calls = 1
    /\ ~IsResult(reqs[r].res.body)

Normalized(r) ==
    /\ reqs[r].pc = "json"
    /\ reqs'[r].pc = "done"
    /\ IsResult(reqs'[r].res.body)

\* C11: when a request answers with a result normalized from the upstream
\* answer, the cache then maps its inn to exactly that result, stamped now,
\* whatever the status of the result.
C11_ResultCached ==
    [][\A r \in Requests :
          Normalized(r)
          => LET i == Index(cache', reqs[r].inn) IN
             /\ i # 0
             /\ cache'[i].value = reqs'[r].res.body
             /\ cache'[i].start = now]_vars

\* a not-found result is in the cache
C11_Witness ==
    \E r \in Requests :
        /\ reqs[r].pc = "done" /\ reqs[r].wrote
        /\ reqs[r].res.body.status = "error"
        /\ Index(cache, reqs[r].inn) # 0
        /\ cache[Index(cache, reqs[r].inn)].value = reqs[r].res.body

\* C14: the body sent on a cache hit equals the body sent by the request
\* that stored the entry.
C14_HitEqualsMiss ==
    [][\A r \in Requests, inn \in Inns :
          (Receive(r, inn) /\ Valid(inn) /\ FreshEntry(inn))
          => LET w == cache[Index(cache, inn)].by IN
             /\ reqs[w].pc = "done" /\ reqs[w].wrote /\ ~reqs[w].hit
             /\ reqs'[r].res.body = reqs[w].res.body]_vars

C14_Witness ==
    \E r, w \in Requests :
        /\ reqs[w].wrote /\ reqs[r].hit /\ reqs[r].inn = reqs[w].inn
        /\ HasCompany(reqs[w].res.body)
        /\ reqs[r].res.body = reqs[w].res.body

\* C15: a request that found no entry under its inn and, when its upstream
\* answer is normalized, finds there the entry another request stored in the
\* meantime, has made its own upstream call as the other did, and replaces
\* that entry by its own result: the last write wins.
C15_NoDeduplication ==
    [][\A r \in Requests :
          LET i == Index(cache, reqs[r].inn) IN
          (Normalized(r) /\ ~reqs[r].expired /\ i # 0)
          => /\ cache[i].by # r
             /\ reqs[r].calls = 1 /\ reqs[cache[i].by].calls = 1
             /\ Len(cache') = Len(cache)
             /\ cache'[Index(cache', reqs[r].inn)].by = r
             /\ cache'[Index(cache', reqs[r].inn)].value = reqs'[r].res.body]_vars

C15_Witness ==
    \E r1, r2 \in Requests :
        /\ r1 # r2 /\ reqs[r1].inn = reqs[r2].inn
        /\ reqs[r1].wrote /\ reqs[r2].wrote
        /\ ~reqs[r1].expired /\ ~reqs[r2].expired
        /\ reqs[r1].calls = 1 /\ reqs[r2].calls = 1
        /\ reqs[r1].res.body # reqs[r2].res.body
        /\ cache[Index(cache, reqs[r2].inn)].by = r2
        /\ cache[Index(cache, reqs[r2].inn)].value = reqs[r2].res.body

\* C16: no request calls upstream more than once.
C16_AtMostOneCall ==
    \A r \in Requests : reqs[r].calls <= 1

\* a request whose upstream call failed has answered after that one call
C16_Witness ==
    \E r \in Requests :
        /\ reqs[r].pc = "done" /\ reqs[r].calls = 1
        /\ reqs[r].res = [code |-> 500,
                          body |-> [message |-> MsgInternal, details |-> "error.message"]]

C19_HitIsAtomic ==
    /\ [](\A r \in Requests : reqs[r].hit => IsResult(reqs[r].res.body))
    /\ [][\A r \in Requests :
             (reqs[r].pc = "idle" /\ reqs'[r].hit)
             => /\ reqs'[r].pc = "done"
                /\ now' = now
                /\ \A q \in Requests \ {r} : reqs'[q] = reqs[q]
                /\ {cache'[i].key : i \in 1..Len(cache')} = {cache[i].key : i \in 1..Len(cache)}
                /\ reqs'[r].res.body = cache[Index(cache, reqs'[r].inn)].value]_vars

\* a hit on the last tick of the entry's life, with the stored result
C19_Witness ==
    \E r \in Requests :
        /\ reqs[r].hit /\ reqs[r].atTtl
        /\ IsResult(reqs[r].res.body)
        /\ Index(cache, reqs[r].inn) # 0
        /\ reqs[r].res.body = cache[Index(cache, reqs[r].inn)].value

\* C20: every cache key is a string of 10 or 12 digits, the inn of the
\* request that stored it, and two requests whose inn values have the same
\* digits use the same key.
C20_KeysAreDigitStrings ==
    /\ \A i \in 1..Len(cache) :
           /\ cache[i].key.t = "string"
           /\ MatchesPattern(cache[i].key.s)
           /\ cache[i].key = reqs[cache[i].by].inn
    /\ \A r1, r2 \in Requests :
           (/\ reqs[r1].pc # "idle" /\ reqs[r2].pc # "idle"
            /\ reqs[r1].res.code # 400 /\ reqs[r2].res.code # 400
            /\ reqs[r1].inn.s = reqs[r2].inn.s)
           => reqs[r1].inn = reqs[r2].inn

Keys(c) == {c[i].key : i \in 1..Len(c)}

\* C12: the cache never holds more than max entries.
C12_AtMostMaxEntries ==
    /\ Len(cache) <= max
    /\ Cardinality(Keys(cache)) = Len(cache)

\* the cache is full and the entry of a request that stored one is gone
C12_Witness ==
    /\ Len(cache) = max
    /\ \E r \in LruRequests : reqs[r].wrote /\ reqs[r].inn \notin Keys(cache)

\* C13: when a result for a new key is stored in a full cache, the one entry
\* dropped is the entry whose last access, a hit or an insertion, is the
\* oldest.
C13_EvictsLeastRecentlyUsed ==
    [][\A r \in LruRequests :
          (Normalized(r) /\ reqs[r].inn \notin Keys(cache) /\ Len(cache) = max)
          => \E i \in 1..Len(cache) :
                /\ \A j \in 1..Len(cache) : j # i => cache[i].used < cache[j].used
                /\ Keys(cache') = (Keys(cache) \ {cache[i].key}) \cup {reqs[r].inn}]_vars

\* A and B inserted, A hit, C inserted: B is gone, A stays
C13_Witness ==
    \E r1, r2, r3, r4 \in LruRequests :
        /\ reqs[r1].wrote /\ reqs[r1].inn = InnA
        /\ reqs[r2].wrote /\ reqs[r2].inn = InnB
        /\ reqs[r3].hit /\ reqs[r3].inn = InnA
        /\ reqs[r4].wrote /\ reqs[r4].inn = InnC
        /\ Len(cache) = 2
        /\ cache[1].key = InnA /\ cache[1].by = r1 /\ cache[1].used = 3
        /\ cache[2].key = InnC /\ cache[2].by = r4 /\ cache[2].used = 4

\* C17: a business profile held by UserSystem has isVerified true, with the
\* company record alongside, exactly when the last INN verification returned
\* status 'success'.
C17_VerifiedIffLastSuccess ==
    client.currentUser.type = "business"
    => /\ client.currentUser.isVerified = "true" <=> client.lastStatus = "success"
       /\ client.lastStatus = "success" => client.currentUser.fnsData = "company"

\* C21: a request whose inn is a string of 10 or 12 digits with whitespace
\* before or after it is accepted, not answered 400: it is a cache hit or it
\* goes on to the upstream call.
C21_TrimmedBeforeValidation ==
    [][\A r \in Requests, inn \in Inns :
          (Receive(r, inn) /\ inn.t = "string" /\ MatchesPattern(trim(inn.s)))
          => \/ reqs'[r].pc = "fetch"
             \/ reqs'[r].pc = "done" /\ reqs'[r].res.code = 200]_vars

\* the parsed body of a 2xx answer has no usable list of suggestions, or its
\* first suggestion lacks the name, address or state record
Malformed(data) ==
    \/ "suggestions" \notin DOMAIN data
    \/ /\ data.suggestions # <<>>
       /\ \/ IsMissing(data.suggestions[1].name)
          \/ IsMissing(data.suggestions[1].address)
          \/ IsMissing(data.suggestions[1].state)

\* C22: when the upstream answers 2xx with a malformed body, the request is
\* answered with an error response that is no verification result, and the
\* cache is left as it was.
C22_MalformedIsFailure ==
    [][\A r \in Requests, data \in Datas :
          (JsonResolves(r, data) /\ Malformed(data))
          => /\ reqs'[r].pc = "done"
             /\ ~IsResult(reqs'[r].res.body)
             /\ reqs'[r].res.code \in 500..599
             /\ cache' = cache]_vars

\* the first non-empty string of a sequence that has one
FirstNonEmpty(seq) ==
    seq[CHOOSE i \in 1..Len(seq) : seq[i] # "" /\ \A j \in 1..(i - 1) : seq[j] = ""]

NameFields(c) == <<c.name.full_with_opf, c.name.short_with_opf, c.name.full, c.name.short>>

\* C23: company.name is the first non-empty of the first candidate's
\* full_with_opf, short_with_opf, full and short, in this order.
C23_NameResolutionOrder ==
    [][\A r \in Requests :
          Normalized(r) =>
              \A c \in NormCandidates :
                  (/\ JsonResolves(r, [suggestions |-> <<c>>])
                   /\ \E i \in 1..4 : NameFields(c)[i] # "")
                  => /\ HasCompany(reqs'[r].res.body)
                     /\ reqs'[r].res.body.company.name = FirstNonEmpty(NameFields(c))]_vars

\* the short name was used where the three fields before it were empty, and
\* the short name with legal form where only the first field was empty
C23_Witness ==
    /\ Len(cache) = 2
    /\ cache[1].value.company.name = "Rom"
    /\ cache[2].value.company.name = "OOO Rom"
    /\ \E r1, r2 \in Requests :
           /\ reqs[r1].pc = "done" /\ reqs[r1].wrote /\ reqs[r2].pc = "done" /\ reqs[r2].wrote
           /\ reqs[r1].res.body.company.name = "Rom"
           /\ reqs[r2].res.body.company.name = "OOO Rom"

\* t is s with every upper-case letter replaced by its lower-case letter
IsLowerCaseOf(t, s) ==
    /\ Len(t) = Len(s)
    /\ \A i \in 1..Len(s) :
          \/ /\ \A k \in 1..Len(UpperChars) : UpperChars[k] # s[i]
             /\ t[i] = s[i]
          \/ \E k \in 1..Len(UpperChars) : UpperChars[k] = s[i] /\ LowerChars[k] = t[i]

\* C24: company.state is the candidate's status token in lower case; the
\* token ACTIVE gives status "success", LIQUIDATING gives "warning", with
\* the company present.
C24_StateLowercased ==
    [][\A r \in Requests :
          (reqs[r].pc = "json" /\ reqs'[r].pc = "done") =>
              \A c \in NormCandidates :
                  JsonResolves(r, [suggestions |-> <<c>>])
                  => LET body == reqs'[r].res.body IN
                     /\ IsResult(body) /\ HasCompany(body)
                     /\ IsLowerCaseOf(body.company.state, c.state.status)
                     /\ c.state.status = ACTIVE => body.status = "success"
                     /\ c.state.status = LIQUIDATING => body.status = "warning"]_vars

C24_Witness ==
    \E r1, r2 \in Requests :
        /\ reqs[r1].pc = "done" /\ reqs[r1].wrote
        /\ reqs[r1].res.body.status = "success"
        /\ reqs[r1].res.body.company.state = active
        /\ reqs[r2].pc = "done" /\ reqs[r2].wrote
        /\ reqs[r2].res.body.status = "warning"
        /\ reqs[r2].res.body.company.state = liquidating

\* C25: every result with a company, sent or cached, has a non-empty
\* company.name.
C25_NameNonEmpty ==
    /\ \A i \in 1..Len(cache) :
           HasCompany(cache[i].value) => cache[i].value.company.name # ""
    /\ \A r \in Requests :
           (reqs[r].pc = "done" /\ HasCompany(reqs[r].res.body))
           => reqs[r].res.body.company.name # ""

\* the entry stored under key k in cache c, when there is one
EntryOf(c, k) == c[Index(c, k)]

\* a step of a request for k neither inserts nor changes an entry of another key
OthersNotWritten(k) ==
    \A j \in Keys(cache') \ {k} :
        j \in Keys(cache) /\ EntryOf(cache', j) = EntryOf(cache, j)

\* C26 as stated: a request for an identifier never inserts, overwrites or
\* re-stamps the entry of another, and its result does not depend on the
\* requests made for others: once a result for it is stored (and no time
\* has passed), a request for it is answered with that result.
C26_Original ==
    [][\A r \in LruRequests :
          reqs'[r] # reqs[r] =>
              /\ OthersNotWritten(reqs'[r].inn)
              /\ (/\ reqs[r].pc = "idle"
                  /\ \E p \in LruRequests : reqs[p].wrote /\ reqs[p].inn = reqs'[r].inn)
                 => reqs'[r].hit]_vars

\* C26, amended: a request for an identifier never inserts, overwrites or
\* re-stamps the entry of another, and a hit is answered with a result stored
\* by a request for the same identifier; the only effect on another
\* identifier is that storing a new key in a full cache drops one entry.
C26_IndependentButForEviction ==
    [][\A r \in LruRequests :
          reqs'[r] # reqs[r] =>
              LET k == reqs'[r].inn IN
              /\ OthersNotWritten(k)
              /\ \/ Keys(cache) \ {k} \subseteq Keys(cache')
                 \/ /\ reqs'[r].wrote /\ k \notin Keys(cache) /\ Len(cache) = max
                    /\ Cardinality((Keys(cache) \ {k}) \ Keys(cache')) = 1
              /\ reqs'[r].hit
                 => /\ reqs[EntryOf(cache, k).by].inn = k
                    /\ reqs'[r].res.body = EntryOf(cache, k).value]_vars

\* the result stored for one identifier was dropped when another was stored,
\* and a later request for the first calls the upstream again
C26_Witness ==
    \E r1, r2 \in LruRequests :
        /\ r1 < r2 /\ reqs[r1].inn = reqs[r2].inn
        /\ reqs[r1].wrote /\ reqs[r1].pc = "done"
        /\ reqs[r2].pc = "fetch"
        /\ Len(cache) = max
        /\ reqs[r1].inn \notin Keys(cache)

(***************************************************************************)
(* Properties of Navigation.                                               *)
(***************************************************************************)

\* the step leaves the current screen, the history and the flag as they were
NavigationKept ==
    /\ nav'.currentScreenId = nav.currentScreenId
    /\ nav'.navigationHistory = nav.navigationHistory
    /\ nav'.isAddingOrEditing = nav.isAddingOrEditing

\* C27: goBack with no modal open and the unsaved-changes flag clear makes
\* the top of a non-empty history the current screen, and with an empty
\* history closes the Mini App and keeps the current screen.
C27_GoBack ==
    [][\A confirmed, confirmedAgain \in BOOLEAN :
          (/\ BackButtonClick(confirmed, confirmedAgain)
           /\ ~nav.locationPickerActive /\ ~nav.establishmentActive
           /\ ~nav.isAddingOrEditing)
          => IF nav.navigationHistory # <<>>
             THEN /\ nav'.currentScreenId =
                         nav.navigationHistory[Len(nav.navigationHistory)]
                  /\ ~nav'.closed
             ELSE /\ nav'.closed
                  /\ nav'.currentScreenId = nav.currentScreenId]_vars

\* back on the map from the profile screen, which only goBack puts at the
\* bottom of the history
C27_Witness ==
    /\ nav.currentScreenId = MainMapScreen
    /\ nav.navigationHistory = <<ProfileScreen>>
    /\ ~nav.closed

\* C28: navigationHistory never contains a form screen.
C28_NoFormInHistory ==
    \A i \in 1..Len(nav.navigationHistory) :
        nav.navigationHistory[i] \notin
            { "add-edit-establishment-screen", "edit-business-profile-screen",
              "business-registration-screen" }

\* a form is current after goToScreen and goBack have both filled the history
C28_Witness ==
    /\ nav.currentScreenId \in FormScreens
    /\ nav.navigationHistory = <<ProfileScreen, MainMapScreen>>

\* C29: with the unsaved-changes flag set, a goToScreen or a goBack in which
\* the user declines the confirmation leaves the current screen, the history
\* and the flag as they were.
C29_DeclineCancels ==
    [][nav.isAddingOrEditing =>
          /\ \A t \in Screens : NavButtonClick(t, FALSE) => NavigationKept
          /\ \A confirmed, confirmedAgain \in BOOLEAN :
                 (BackButtonClick(confirmed, confirmedAgain)
                  /\ (~confirmed \/ ~confirmedAgain))
                 => NavigationKept]_vars

\* C30: goToScreen called with the current screen leaves the current screen,
\* the history and the flag as they were.
C30_SameScreenDoesNothing ==
    [][\A confirmed \in BOOLEAN :
          NavButtonClick(nav.currentScreenId, confirmed) => NavigationKept]_vars

\* C31: a request is answered from the cache only when the entry was set no
\* more than ttl ago, and the hit leaves the time the entry was set as it
\* was.
C31_HitsDoNotExtendFreshness ==
    [][\A r \in TtlRequests :
          (reqs[r].pc = "idle" /\ reqs'[r].hit)
          => LET k == reqs'[r].inn IN
             /\ Index(cache, k) # 0
             /\ now - EntryOf(cache, k).start <= ttl
             /\ Index(cache', k) # 0
             /\ EntryOf(cache', k).start = EntryOf(cache, k).start
             /\ EntryOf(cache', k).by = EntryOf(cache, k).by]_vars

\* a result was stored, a later request was a hit on it, and a request after
\* that found the entry expired and calls the upstream
C31_Witness ==
    \E r1, r2, r3 \in TtlRequests :
        /\ reqs[r1].wrote /\ reqs[r2].hit
        /\ reqs[r3].pc = "fetch" /\ reqs[r3].expired
        /\ Len(cache) = 1 /\ cache[1].by = r1 /\ cache[1].used = 2
        /\ now - cache[1].start > ttl

\* C32: the verified mark is set only while the INN in the input field is
\* the INN whose verification returned 'success'.
C32_MarkMatchesInput ==
    client.dataset.isVerified = "true" => trim(client.inn) = client.verifiedInn

\* C33: from a state with no modal open and no unsaved changes, each goBack
\* that navigates leaves navigationHistory strictly shorter than before (so
\* that repeated goBack empties the history and closes the Mini App).
C33_GoBackShortensHistory ==
    [][\A confirmed, confirmedAgain \in BOOLEAN :
          (/\ BackButtonClick(confirmed, confirmedAgain)
           /\ ~nav.locationPickerActive
           /\ ~nav.establishmentActive
           /\ ~nav.isAddingOrEditing
           /\ nav'.currentScreenId # nav.currentScreenId)
          => Len(nav'.navigationHistory) < Len(nav.navigationHistory)]_vars

\* C34: after a form is submitted and saved successfully the page is on
\* 'business-profile-screen' with isAddingOrEditing false, whatever the user
\* would answer to a confirmation (none is requested).
C34_SavedFormReachesProfile ==
    [][\A confirmed \in BOOLEAN :
          EstablishmentSubmit(TRUE, TRUE, confirmed)
          => /\ nav'.currentScreenId = ProfileScreen
             /\ ~nav'.isAddingOrEditing]_vars

\* the ids of the establishments are pairwise distinct
DistinctIds(data) ==
    \A i, j \in 1..Len(data) : i # j => data[i].id # data[j].id

\* C35: after any sequence of addEstablishment, updateEstablishment and
\* deleteEstablishment calls the establishments in establishmentsData have
\* pairwise distinct ids.
C35_DistinctIds == DistinctIds(map.establishmentsData)

\* C38: while the map API is missing, tryInit is called at most once plus
\* RetryLimit times; each earlier call schedules the next one, the last one
\* shows the load-failure message and schedules nothing.
C38_BoundedRetries ==
    /\ map.attempts <= RetryLimit + 1
    /\ map.failed => map.attempts = RetryLimit + 1 /\ map.timer = 0
    /\ (~map.ymaps /\ map.attempts = RetryLimit + 1) => map.failed
    /\ (~map.ymaps /\ map.attempts < RetryLimit + 1) => map.timer = map.attempts + 1

C38_Witness == map.failed /\ ~map.ymaps /\ map.attempts = RetryLimit + 1 /\ map.timer = 0

\* C36: whenever currentUser is non-null, its favoriteCategories and
\* favoriteEstablishments are arrays (so that reading them never fails).
C36_FavoritesAreArrays ==
    client.currentUser.type # "null"
    => /\ client.currentUser.favoriteCategories.t = "array"
       /\ client.currentUser.favoriteEstablishments.t = "array"

\* C37: the profile in localStorage equals the currentUser in memory, so
\* that loading the page again restores the same user.
C37_SavedEqualsCurrentUser ==
    loadUserData(client.saved) = Stored(client.currentUser)

====
